---------------------------- MODULE Spec2Model ----------------------------
(***************************************************************************)
(* Stein Variational Gradient Descent (svgd/main.py, svgd/kernels.py).     *)
(*                                                                         *)
(* Number representation.  Particle coordinates are integers (a grid whose *)
(* unit is one optimizer displacement), so squared distances are exact     *)
(* integers.  The transcendental quantities are kept in closed form:       *)
(*   bandwidth  [num, den, logArg]        = num / (den * ln(logArg))       *)
(*   kernel     [kind = "exp", num, den, logArg]                           *)
(*                                        = exp(-(num/den) * ln(logArg)^2) *)
(*              kind = "zero" is exp(-inf) = 0, kind = "nan" is IEEE NaN   *)
(*   gradients  [den, score, repulse]     = (1/den) * Sum_{i,j} K[i][j] *  *)
(*                     (score[i][j] + repulse[i][j] / bandwidth^2)         *)
(* exp is strictly monotone, so two finite kernel values are equal exactly *)
(* when their reduced exponents are, a value is 1 exactly when its         *)
(* exponent is 0, and every "exp" value lies in (0, 1].  float64 rounding  *)
(* is not modelled.  A tensor is [nan, v]: nan says that it holds a        *)
(* non-finite entry.                                                       *)
(***************************************************************************)
EXTENDS Integers, Sequences, FiniteSets, TLC

VARIABLES
    x,                  \* the particle matrix (tf.Variable), n rows of d coordinates
    optimizer,          \* Adam's state: iterations and whether the moments are finite
    targetDistribution, \* constructor argument: the target density
    pc,                 \* position in SVGD.update
    nIterations,        \* argument of the running update call
    k,                  \* loop counter of `for _ in range(nIterations)`
    normedDist,         \* RbfKernel.__call__: squared distances
    bandwidth,          \* RbfKernel.__call__: bandwidth
    kernelMatrix,       \* update: kernelMatrix
    kernelGrad,         \* update: kernelGrad
    logprobGrad,        \* update: logprobGradient
    completeGrad,       \* update: completeGrad
    result,             \* value returned by update
    optimizerAtCall,    \* optimizer state when update was called
    scale,              \* kernel study: the factor c
    scaledDist,         \* kernel study: squared distances of c*X
    scaledBandwidth,    \* kernel study: bandwidth of c*X
    scaledKernel        \* kernel study: kernel matrix of c*X

vars == <<x, optimizer, targetDistribution, pc, nIterations, k, normedDist,
          bandwidth, kernelMatrix, kernelGrad, logprobGrad, completeGrad,
          result, optimizerAtCall, scale, scaledDist, scaledBandwidth,
          scaledKernel>>

engineVars == <<optimizer, targetDistribution, pc, nIterations, k,
                logprobGrad, completeGrad, result, optimizerAtCall>>

scaledVars == <<scale, scaledDist, scaledBandwidth, scaledKernel>>

kernelVars == <<normedDist, bandwidth, kernelMatrix, kernelGrad>>

(***************************************************************************)
(* Bounds of the model.                                                    *)
(***************************************************************************)
EngineMaxN == 2
EngineMaxCoord == 1
MaxSteps == 2
UnderflowRadius == 2
KernelMaxN == 3
KernelMaxCoord == 3
KernelMaxCoord2D == 1
MaxScale == 2

Means == {1, 3}
Displacements == {-1, 0, 1}

(***************************************************************************)
(* Tensors.                                                                *)
(***************************************************************************)
Tensor(v) == [nan |-> FALSE, v |-> v]
NaNTensor == [nan |-> TRUE, v |-> <<>>]
Unset == [nan |-> FALSE, v |-> <<>>]
UnsetBandwidth == [nan |-> FALSE, num |-> 0, den |-> 1, logArg |-> 1]
NaNBandwidth == [nan |-> TRUE, num |-> 0, den |-> 1, logArg |-> 1]

NumParticles(t) == Len(t.v)
Dims(t) == Len(t.v[1])
NaNLike(t) ==
    [nan |-> TRUE, v |-> [i \in 1..NumParticles(t) |-> [c \in 1..Dims(t) |-> 0]]]

\* the one element of a singleton set
Only(S) == CHOOSE e \in S : TRUE

SumSeq[s \in Seq(Int)] == IF Len(s) = 0 THEN 0 ELSE Head(s) + SumSeq[Tail(s)]

GCD[a \in Nat, b \in Nat] == IF b = 0 THEN a ELSE GCD[b, a % b]

(***************************************************************************)
(* kernels.py: euclideanPairwiseDistance.                                  *)
(***************************************************************************)
\* tf.expand_dims(x, 1) - tf.expand_dims(tf.stop_gradient(x), 0)
ExpandDimsDifference(v) ==
    [i \in 1..Len(v) |-> [j \in 1..Len(v) |->
        [c \in 1..Len(v[1]) |-> v[i][c] - v[j][c]]]]

\* tf.transpose of a rank-3 tensor reverses its axes
Transpose(t) ==
    [c \in 1..Len(t[1][1]) |-> [j \in 1..Len(t[1]) |->
        [i \in 1..Len(t) |-> t[i][j][c]]]]

\* tf.einsum('ijk,kji->ij', a, b)
Einsum(a, b) ==
    [i \in 1..Len(a) |-> [j \in 1..Len(a[1]) |->
        SumSeq[[c \in 1..Len(a[1][1]) |-> a[i][j][c] * b[c][j][i]]]]]

euclideanPairwiseDistance(t) ==
    IF t.nan THEN NaNTensor
    ELSE LET distance == ExpandDimsDifference(t.v)
         IN  Tensor(Einsum(distance, Transpose(distance)))

(***************************************************************************)
(* kernels.py: RbfKernel.computeBandWidth.                                 *)
(***************************************************************************)
\* the entries of a matrix, row after row
Flatten[m \in Seq(Seq(Int))] ==
    IF Len(m) = 0 THEN <<>> ELSE Head(m) \o Flatten[Tail(m)]

Insert[e \in Int, s \in Seq(Int)] ==
    IF Len(s) = 0 THEN <<e>>
    ELSE IF e <= Head(s) THEN <<e>> \o s
    ELSE <<Head(s)>> \o Insert[e, Tail(s)]

\* ascending order
Sort[s \in Seq(Int)] ==
    IF Len(s) = 0 THEN <<>> ELSE Insert[Head(s), Sort[Tail(s)]]

\* a variant of percentile: interpolation='lower'
percentileLower(m) ==
    LET sorted == Sort[Flatten[m]]
        size == Len(sorted)
        lower == (size - 1) \div 2
    IN  [num |-> 2 * sorted[lower + 1], den |-> 2]

\* tfp.stats.percentile(m, 50.0, interpolation='midpoint') over the flattened
\* matrix: 0.5 * (sorted[floor((N-1)/2)] + sorted[ceil((N-1)/2)]), as the
\* fraction [num, den].
percentile(m) ==
    LET sorted == Sort[Flatten[m]]
        size == Len(sorted)
        lower == (size - 1) \div 2
        higher == size \div 2
    IN  [num |-> sorted[lower + 1] + sorted[higher + 1], den |-> 2]

computeBandWidth(euclideanPwDistances) ==
    IF euclideanPwDistances.nan THEN NaNBandwidth
    ELSE LET pwDistanceMedian == percentile(euclideanPwDistances.v)
             n == Len(euclideanPwDistances.v)
             g == GCD[pwDistanceMedian.num, pwDistanceMedian.den]
         IN  [nan |-> FALSE,
              num |-> pwDistanceMedian.num \div g,
              den |-> pwDistanceMedian.den \div g,
              logArg |-> n + 1]

(***************************************************************************)
(* kernels.py: RbfKernel.__call__.                                         *)
(***************************************************************************)
NaNEntry == [kind |-> "nan", num |-> 0, den |-> 1, logArg |-> 1]
ZeroEntry == [kind |-> "zero", num |-> 0, den |-> 1, logArg |-> 1]

\* exp(-(num/den) * ln(logArg)^2), reduced
ExpNeg(num, den, logArg) ==
    LET g == GCD[num, den]
    IN  [kind |-> "exp", num |-> num \div g, den |-> den \div g, logArg |-> logArg]

\* tf.exp(-0.5 * dist / bw**2) for one entry.  With bw = num/(den*ln) the
\* exponent is -(dist * den^2) / (2 * num^2) * ln^2.  IEEE: -0.0/0.0 is NaN,
\* -dist/0.0 is -inf and exp(-inf) is 0.
KernelEntry(dist, bw) ==
    IF bw.num = 0
    THEN IF dist = 0 THEN NaNEntry ELSE ZeroEntry
    ELSE ExpNeg(dist * bw.den * bw.den, 2 * bw.num * bw.num, bw.logArg)

HasNaN(m) == \E i \in 1..Len(m) : \E j \in 1..Len(m[i]) : m[i][j].kind = "nan"

KernelOf(dist, bw) ==
    IF dist.nan \/ bw.nan THEN NaNTensor
    ELSE LET m == [i \in 1..Len(dist.v) |-> [j \in 1..Len(dist.v) |->
                      KernelEntry(dist.v[i][j], bw)]]
         IN  [nan |-> HasNaN(m), v |-> m]

\* RbfKernel.__call__(x): the locals normedDist and bandwidth, and the result
RbfKernel(t) ==
    LET dist == euclideanPairwiseDistance(t)
        bw == computeBandWidth(dist)
    IN  [normedDist |-> dist, bandwidth |-> bw, kernelMatrix |-> KernelOf(dist, bw)]

(***************************************************************************)
(* Gradients.  An entry [den, score, repulse] stands for                   *)
(*   (1/den) * Sum_{i,j} K[i][j] * (score[i][j] + repulse[i][j] / bw^2).   *)
(***************************************************************************)
ZeroMatrix(n) == [i \in 1..n |-> [j \in 1..n |-> 0]]

\* a variant of DistanceJacobian: no tf.stop_gradient on the second operand
DistanceJacobianBothOperands(v, i, j, a, c) ==
    (IF i = a THEN 2 * (v[i][c] - v[j][c]) ELSE 0)
    + (IF j = a THEN -2 * (v[i][c] - v[j][c]) ELSE 0)

\* d normedDist[i][j] / d x[a][c]: the first operand of the difference is
\* x[i], the second is under tf.stop_gradient and contributes nothing
DistanceJacobian(v, i, j, a, c) ==
    (IF i = a THEN 2 * (v[i][c] - v[j][c]) ELSE 0) + 0

\* tape.gradient(kernelMatrix, [x])[0]: the gradient of the sum of all kernel
\* entries; d exp(-0.5 * D / bw^2) = K * (-0.5 / bw^2) * dD, bw a constant
TapeGradient(K, t) ==
    IF K.nan \/ t.nan THEN NaNTensor
    ELSE LET n == Len(t.v)
         IN  Tensor([a \in 1..n |-> [c \in 1..Len(t.v[1]) |->
                 [den |-> 1,
                  score |-> ZeroMatrix(n),
                  repulse |-> [i \in 1..n |-> [j \in 1..n |->
                      -(DistanceJacobian(t.v, i, j, a, c) \div 2)]]]]])

\* unary minus on a gradient tensor
Neg(g) ==
    IF g.nan THEN NaNTensor
    ELSE Tensor([a \in 1..Len(g.v) |-> [c \in 1..Len(g.v[1]) |->
             [den |-> g.v[a][c].den,
              score |-> [i \in 1..Len(g.v) |-> [j \in 1..Len(g.v) |->
                            -g.v[a][c].score[i][j]]],
              repulse |-> [i \in 1..Len(g.v) |-> [j \in 1..Len(g.v) |->
                            -g.v[a][c].repulse[i][j]]]]]])

\* sum of two gradient tensors over the same denominator
Add(g, h) ==
    IF g.nan \/ h.nan THEN NaNTensor
    ELSE Tensor([a \in 1..Len(g.v) |-> [c \in 1..Len(g.v[1]) |->
             [den |-> g.v[a][c].den,
              score |-> [i \in 1..Len(g.v) |-> [j \in 1..Len(g.v) |->
                            g.v[a][c].score[i][j] + h.v[a][c].score[i][j]]],
              repulse |-> [i \in 1..Len(g.v) |-> [j \in 1..Len(g.v) |->
                            g.v[a][c].repulse[i][j] + h.v[a][c].repulse[i][j]]]]]])

\* division of a gradient tensor by an integer
Div(g, m) ==
    IF g.nan THEN NaNTensor
    ELSE Tensor([a \in 1..Len(g.v) |-> [c \in 1..Len(g.v[1]) |->
             [den |-> g.v[a][c].den * m,
              score |-> g.v[a][c].score,
              repulse |-> g.v[a][c].repulse]]])

\* kernelMatrix @ s: entry (a, c) is Sum_j K[a][j] * s[j][c]
MatMul(K, s) ==
    IF K.nan \/ s.nan THEN NaNTensor
    ELSE LET n == Len(s.v)
         IN  Tensor([a \in 1..n |-> [c \in 1..Len(s.v[1]) |->
                 [den |-> 1,
                  score |-> [i \in 1..n |-> [j \in 1..n |->
                                IF i = a THEN s.v[j][c] ELSE 0]],
                  repulse |-> ZeroMatrix(n)]]])

(***************************************************************************)
(* main.py: SVGD.computeKernel, SVGD.logprobGradient, the update direction *)
(* and the optimizer.                                                      *)
(***************************************************************************)
computeKernel(t) ==
    LET r == RbfKernel(t)
    IN  [normedDist |-> r.normedDist,
         bandwidth |-> r.bandwidth,
         kernelMatrix |-> r.kernelMatrix,
         kernelGrad |-> Neg(TapeGradient(r.kernelMatrix, t))]

Abs(a) == IF a < 0 THEN -a ELSE a

\* The targets are unit Gaussians with mean target.mu in every coordinate:
\* the gradient of log(density) at a particle is mu - x.  Farther than
\* UnderflowRadius from the mean the density underflows to 0, log gives -inf
\* and the tape's gradient (1/0) * 0 is NaN.
Underflows(t, target) ==
    \E i \in 1..Len(t.v) : \E c \in 1..Len(t.v[1]) :
        Abs(t.v[i][c] - target.mu) > UnderflowRadius

logprobGradient(t, target) ==
    IF t.nan \/ Underflows(t, target) THEN NaNTensor
    ELSE Tensor([i \in 1..Len(t.v) |-> [c \in 1..Len(t.v[1]) |->
             target.mu - t.v[i][c]]])

\* a variant of CompleteGrad: the diagonal of the kernel matrix left out of
\* the product with the score gradient
MatMulOffDiagonal(K, s) ==
    IF K.nan \/ s.nan THEN NaNTensor
    ELSE LET n == Len(s.v)
         IN  Tensor([a \in 1..n |-> [c \in 1..Len(s.v[1]) |->
                 [den |-> 1,
                  score |-> [i \in 1..n |-> [j \in 1..n |->
                                IF i = a /\ j # a THEN s.v[j][c] ELSE 0]],
                  repulse |-> ZeroMatrix(n)]]])

CompleteGradOffDiagonal(K, s, kg, t) ==
    Only({Div(negated, NumParticles(t)) :
            negated \in {Neg(sum) :
                sum \in {Add(product, kg) :
                    product \in {MatMulOffDiagonal(K, s)}}}})

\* -(kernelMatrix @ logprobGradient + kernelGrad) / x.shape[0]: the product,
\* the sum, the negation and the quotient, each evaluated once
CompleteGrad(K, s, kg, t) ==
    Only({Div(negated, NumParticles(t)) :
            negated \in {Neg(sum) :
                sum \in {Add(product, kg) :
                    product \in {MatMul(K, s)}}}})

\* tf.keras.optimizers.Adam.apply_gradients([(g, x)]): one more iteration;
\* a non-finite gradient makes the moments and the variable NaN for good.
\* Adam's update rule is outside the repository: each coordinate moves by
\* one of Displacements, chosen by the caller of this operator.
AdamStep(opt, g, t, delta) ==
    LET poisoned == opt.nan \/ g.nan \/ t.nan
    IN  [optimizer |-> [iterations |-> opt.iterations + 1, nan |-> poisoned],
         x |-> IF poisoned THEN NaNLike(t)
               ELSE Tensor([i \in 1..Len(t.v) |-> [c \in 1..Len(t.v[1]) |->
                        t.v[i][c] + delta[i][c]]])]

\* variants of RangeHasNext: one iteration too many, and a stop after the
\* first iteration
RangeHasNextInclusive(done, n) == done <= n
RangeHasNextStopsEarly(done, n) == done < n /\ done < 1

\* for _ in range(nIterations): is there another iteration after k of them
RangeHasNext(done, n) == done < n

(***************************************************************************)
(* SVGD: construction and update.                                          *)
(***************************************************************************)
EngineParticles ==
    UNION {[1..n -> [1..1 -> 0..EngineMaxCoord]] : n \in 1..EngineMaxN}

Init ==
    /\ x \in {Tensor(v) : v \in EngineParticles}
    /\ optimizer = [iterations |-> 0, nan |-> FALSE]
    /\ targetDistribution \in {[mu |-> m] : m \in Means}
    /\ pc = "Idle"
    /\ nIterations = 0
    /\ k = 0
    /\ normedDist = Unset
    /\ bandwidth = UnsetBandwidth
    /\ kernelMatrix = Unset
    /\ kernelGrad = Unset
    /\ logprobGrad = Unset
    /\ completeGrad = Unset
    /\ result = Unset
    /\ optimizerAtCall = [iterations |-> 0, nan |-> FALSE]
    /\ scale = 1
    /\ scaledDist = Unset
    /\ scaledBandwidth = UnsetBandwidth
    /\ scaledKernel = Unset

\* update(x, n) is called; the total number of optimizer steps is capped
update_call(n) ==
    /\ pc \in {"Idle", "Done"}
    /\ optimizer.iterations + n <= MaxSteps
    /\ pc' = "for"
    /\ nIterations' = n
    /\ k' = 0
    /\ optimizerAtCall' = optimizer
    /\ normedDist' = Unset
    /\ bandwidth' = UnsetBandwidth
    /\ kernelMatrix' = Unset
    /\ kernelGrad' = Unset
    /\ logprobGrad' = Unset
    /\ completeGrad' = Unset
    /\ result' = Unset
    /\ UNCHANGED <<x, optimizer, targetDistribution, scaledVars>>

\* line 10: the loop goes on
update_for ==
    /\ pc = "for"
    /\ RangeHasNext(k, nIterations)
    /\ pc' = "computeKernel"
    /\ UNCHANGED <<x, optimizer, targetDistribution, nIterations, k, kernelVars,
                   logprobGrad, completeGrad, result, optimizerAtCall, scaledVars>>

\* line 11, computeKernel -> RbfKernel.__call__, kernels.py line 12
call_euclideanPairwiseDistance ==
    /\ pc = "computeKernel"
    /\ normedDist' = euclideanPairwiseDistance(x)
    /\ pc' = "computeBandWidth"
    /\ UNCHANGED <<x, optimizer, targetDistribution, nIterations, k, bandwidth,
                   kernelMatrix, kernelGrad, logprobGrad, completeGrad, result,
                   optimizerAtCall, scaledVars>>

\* kernels.py line 13
call_computeBandWidth ==
    /\ pc = "computeBandWidth"
    /\ bandwidth' = computeBandWidth(normedDist)
    /\ pc' = "exp"
    /\ UNCHANGED <<x, optimizer, targetDistribution, nIterations, k, normedDist,
                   kernelMatrix, kernelGrad, logprobGrad, completeGrad, result,
                   optimizerAtCall, scaledVars>>

\* kernels.py line 14
call_exp ==
    /\ pc = "exp"
    /\ kernelMatrix' = KernelOf(normedDist, bandwidth)
    /\ pc' = "gradient"
    /\ UNCHANGED <<x, optimizer, targetDistribution, nIterations, k, normedDist,
                   bandwidth, kernelGrad, logprobGrad, completeGrad, result,
                   optimizerAtCall, scaledVars>>

\* main.py line 21
computeKernel_gradient ==
    /\ pc = "gradient"
    /\ kernelGrad' = Neg(TapeGradient(kernelMatrix, x))
    /\ pc' = "logprobGradient"
    /\ UNCHANGED <<x, optimizer, targetDistribution, nIterations, k, normedDist,
                   bandwidth, kernelMatrix, logprobGrad, completeGrad, result,
                   optimizerAtCall, scaledVars>>

\* line 12
update_logprobGradient ==
    /\ pc = "logprobGradient"
    /\ logprobGrad' = logprobGradient(x, targetDistribution)
    /\ pc' = "completeGrad"
    /\ UNCHANGED <<x, optimizer, targetDistribution, nIterations, k, kernelVars,
                   completeGrad, result, optimizerAtCall, scaledVars>>

\* line 14
update_completeGrad ==
    /\ pc = "completeGrad"
    /\ completeGrad' = CompleteGrad(kernelMatrix, logprobGrad, kernelGrad, x)
    /\ pc' = "apply_gradients"
    /\ UNCHANGED <<x, optimizer, targetDistribution, nIterations, k, kernelVars,
                   logprobGrad, result, optimizerAtCall, scaledVars>>

\* line 15, and back to the loop head
update_apply_gradients ==
    /\ pc = "apply_gradients"
    /\ \E delta \in [1..NumParticles(x) -> [1..Dims(x) -> Displacements]] :
           LET r == AdamStep(optimizer, completeGrad, x, delta)
           IN  /\ optimizer' = r.optimizer
               /\ x' = r.x
    /\ k' = k + 1
    /\ pc' = "for"
    /\ UNCHANGED <<targetDistribution, nIterations, kernelVars, logprobGrad,
                   completeGrad, result, optimizerAtCall, scaledVars>>

\* line 16: the loop is exhausted, update returns x
update_return ==
    /\ pc = "for"
    /\ ~RangeHasNext(k, nIterations)
    /\ result' = x
    /\ pc' = "Done"
    /\ UNCHANGED <<x, optimizer, targetDistribution, nIterations, k, kernelVars,
                   logprobGrad, completeGrad, optimizerAtCall, scaledVars>>

update_step ==
    \/ update_for
    \/ call_euclideanPairwiseDistance
    \/ call_computeBandWidth
    \/ call_exp
    \/ computeKernel_gradient
    \/ update_logprobGradient
    \/ update_completeGrad
    \/ update_apply_gradients
    \/ update_return

Next ==
    \/ \E n \in -1..MaxSteps : update_call(n)
    \/ update_for
    \/ call_euclideanPairwiseDistance
    \/ call_computeBandWidth
    \/ call_exp
    \/ computeKernel_gradient
    \/ update_logprobGradient
    \/ update_completeGrad
    \/ update_apply_gradients
    \/ update_return

Spec == Init /\ [][Next]_vars

\* update is a synchronous loop on one thread: a call that has started keeps
\* taking its next step
FairSpec == Spec /\ WF_vars(update_step)

(***************************************************************************)
(* The kernel on its own: RbfKernel and SVGD.computeKernel applied to a    *)
(* particle matrix X and to c*X.                                           *)
(***************************************************************************)
KernelParticles ==
    UNION {[1..n -> [1..1 -> 0..KernelMaxCoord]]
               \cup [1..n -> [1..2 -> 0..KernelMaxCoord2D]] : n \in 1..KernelMaxN}

Scaled(c, t) ==
    Tensor([i \in 1..Len(t.v) |-> [d \in 1..Len(t.v[1]) |-> c * t.v[i][d]]])

KernelInit ==
    /\ x \in {Tensor(v) : v \in KernelParticles}
    /\ scale \in 1..MaxScale
    /\ optimizer = [iterations |-> 0, nan |-> FALSE]
    /\ targetDistribution = [mu |-> 1]
    /\ pc = "Idle"
    /\ nIterations = 0
    /\ k = 0
    /\ normedDist = Unset
    /\ bandwidth = UnsetBandwidth
    /\ kernelMatrix = Unset
    /\ kernelGrad = Unset
    /\ logprobGrad = Unset
    /\ completeGrad = Unset
    /\ result = Unset
    /\ optimizerAtCall = [iterations |-> 0, nan |-> FALSE]
    /\ scaledDist = Unset
    /\ scaledBandwidth = UnsetBandwidth
    /\ scaledKernel = Unset

\* svgd.computeKernel(X)
kernel_apply ==
    /\ kernelMatrix = Unset
    /\ LET r == computeKernel(x)
       IN  /\ normedDist' = r.normedDist
           /\ bandwidth' = r.bandwidth
           /\ kernelMatrix' = r.kernelMatrix
           /\ kernelGrad' = r.kernelGrad
    /\ UNCHANGED <<x, engineVars, scaledVars>>

\* RbfKernel()(c * X)
kernel_apply_scaled ==
    /\ scaledKernel = Unset
    /\ LET r == RbfKernel(Scaled(scale, x))
       IN  /\ scaledDist' = r.normedDist
           /\ scaledBandwidth' = r.bandwidth
           /\ scaledKernel' = r.kernelMatrix
    /\ UNCHANGED <<x, engineVars, kernelVars, scale>>

KernelNext ==
    \/ kernel_apply
    \/ kernel_apply_scaled

KernelSpec == KernelInit /\ [][KernelNext]_vars

(***************************************************************************)
(* Properties.                                                             *)
(***************************************************************************)
N == NumParticles(x)
KernelApplied == kernelMatrix # Unset
ScaledApplied == scaledKernel # Unset
IsOne(e) == e.kind = "exp" /\ e.num = 0
InUnitInterval(e) == e.kind = "exp"

\* C1: update(X, 0) returns X with every position unchanged and takes no
\* optimizer step: no step that leads into or through a zero-iteration call
\* changes x or the optimizer, and at the return the result is x, the loop ran
\* zero times and the optimizer state is the one the call started with.
C1_ZeroIterationsIdentity ==
    /\ [](pc = "Done" /\ nIterations = 0
            => result = x /\ k = 0 /\ optimizer = optimizerAtCall)
    /\ [][nIterations' = 0 => x' = x /\ optimizer' = optimizer]_vars

C1_Witness ==
    /\ pc = "Done"
    /\ nIterations = 0
    /\ optimizer.iterations > 0
    /\ ~x.nan
    /\ result = x

\* C2: for nIterations >= 0 update runs the loop for k = 0 .. nIterations-1:
\* the optimizer changes only in apply_gradients, once per iteration and with
\* k going up by one, k never passes nIterations, the call returns only after
\* exactly nIterations optimizer steps with result = x, and every call that
\* has started reaches Done.
C2_FixedIterationCount ==
    /\ [](pc = "Done" /\ nIterations >= 0
            => /\ k = nIterations
               /\ optimizer.iterations = optimizerAtCall.iterations + nIterations
               /\ result = x)
    /\ [](pc \notin {"Idle", "Done"} /\ nIterations >= 0
            => /\ k <= nIterations
               /\ optimizer.iterations = optimizerAtCall.iterations + k)
    /\ [][optimizer' # optimizer
            => /\ pc = "apply_gradients"
               /\ k < nIterations
               /\ k' = k + 1
               /\ optimizer'.iterations = optimizer.iterations + 1]_vars
    /\ (pc \notin {"Idle", "Done"} ~> pc = "Done")

C2_Witness ==
    /\ pc = "Done"
    /\ nIterations = 2
    /\ k = 2
    /\ optimizer.iterations = 2
    /\ ~x.nan

C4_SingleParticleRejected ==
    (N = 1 /\ nIterations >= 1 /\ pc # "Idle") =>
        /\ pc # "Done"
        /\ optimizer = optimizerAtCall
        /\ ~(bandwidth # UnsetBandwidth /\ bandwidth.num = 0)

\* C5: update with nIterations < 0 does not return X as a normal result.
C5_NegativeIterationsRejected ==
    ~(nIterations < 0 /\ pc = "Done")

\* C9: once an iteration of the running call has produced a non-finite value
\* (distance, bandwidth, kernel value, gradient, direction, or the particles
\* after the optimizer's step), the run is aborted: the optimizer is not
\* stepped with it, no further iteration starts and update does not return.
NonFiniteProduced ==
    \/ normedDist.nan
    \/ bandwidth.nan
    \/ kernelMatrix.nan
    \/ kernelGrad.nan
    \/ logprobGrad.nan
    \/ completeGrad.nan
    \/ (x.nan /\ k >= 1)

C9_NonFiniteAborts ==
    (pc # "Idle" /\ NonFiniteProduced) => pc \notin {"for", "Done"}

(***************************************************************************)
(* Properties of the kernel.                                               *)
(***************************************************************************)
\* the squared Euclidean distance between rows i and j
SquaredDistance(v, i, j) ==
    SumSeq[[c \in 1..Len(v[1]) |-> (v[i][c] - v[j][c]) * (v[i][c] - v[j][c])]]

\* the r-th smallest entry of a matrix, by counting
OrderStatistic(m, r) ==
    LET cells == (1..Len(m)) \X (1..Len(m))
    IN  CHOOSE w \in {m[p[1]][p[2]] : p \in cells} :
            /\ Cardinality({p \in cells : m[p[1]][p[2]] < w}) < r
            /\ Cardinality({p \in cells : m[p[1]][p[2]] <= w}) >= r

\* C6: for n >= 2 the kernel matrix is symmetric, has diagonal exactly 1 and
\* all entries in (0, 1], coinciding particles included.
C6_KernelMatrixShape ==
    (KernelApplied /\ N >= 2) =>
        /\ ~kernelMatrix.nan
        /\ \A i, j \in 1..N :
             /\ kernelMatrix.v[i][j] = kernelMatrix.v[j][i]
             /\ InUnitInterval(kernelMatrix.v[i][j])
        /\ \A i \in 1..N : IsOne(kernelMatrix.v[i][i])

\* C7: with X replaced by c*X every squared distance and the bandwidth are
\* multiplied by c^2 and every kernel value is unchanged.
C7_ScalingLaw ==
    (KernelApplied /\ ScaledApplied) =>
        /\ \A i, j \in 1..N :
             scaledDist.v[i][j] = scale * scale * normedDist.v[i][j]
        /\ scaledBandwidth.num * bandwidth.den
             = scale * scale * bandwidth.num * scaledBandwidth.den
        /\ scaledBandwidth.logArg = bandwidth.logArg
        /\ scaledKernel = kernelMatrix

\* C8: computeBandWidth(D) is median(D) / ln(n + 1), D the squared Euclidean
\* distances, the median over all n^2 entries (the zero diagonal included) and
\* the midpoint of the two middle entries when n^2 is even; particles 0, 1, 3
\* give D = [[0,1,9],[1,0,4],[9,4,0]] and bandwidth 1 / ln(4).
C8_MedianBandwidth ==
    KernelApplied =>
        /\ \A i, j \in 1..N : normedDist.v[i][j] = SquaredDistance(x.v, i, j)
        /\ ~bandwidth.nan
        /\ bandwidth.logArg = N + 1
        /\ bandwidth.den > 0
        /\ LET count == N * N
               twiceMedian ==
                   IF count % 2 = 1
                   THEN 2 * OrderStatistic(normedDist.v, (count + 1) \div 2)
                   ELSE OrderStatistic(normedDist.v, count \div 2)
                        + OrderStatistic(normedDist.v, count \div 2 + 1)
           IN  2 * bandwidth.num = twiceMedian * bandwidth.den
        /\ x.v = << <<0>>, <<1>>, <<3>> >> =>
             /\ normedDist.v = << <<0, 1, 9>>, <<1, 0, 4>>, <<9, 4, 0>> >>
             /\ bandwidth = [nan |-> FALSE, num |-> 1, den |-> 1, logArg |-> 4]

C8_Witness ==
    /\ KernelApplied
    /\ x.v = << <<0>>, <<1>>, <<3>> >>
    /\ bandwidth = [nan |-> FALSE, num |-> 1, den |-> 1, logArg |-> 4]

\* C10 as stated: row a of the kernel gradient is
\* Sum_j K[a][j] * (x_j - x_a) / bandwidth^2.
C10_GradientAsStated ==
    (KernelApplied /\ ~kernelGrad.nan) =>
        \A a \in 1..N : \A c \in 1..Dims(x) : \A i, j \in 1..N :
            kernelGrad.v[a][c].repulse[i][j] =
                (IF i = a THEN x.v[j][c] - x.v[a][c] ELSE 0)

\* C10 amended: row a of the kernel gradient is the negative of the derivative
\* of Sum_j K[a][j] with respect to x_a (the other particles and the bandwidth
\* held constant), Sum_j K[a][j] * (x_a - x_j) / bandwidth^2: only row a of
\* the kernel matrix enters it; with a zero bandwidth every entry is NaN.
C10_RepulsiveGradient ==
    KernelApplied =>
        /\ kernelGrad.nan = (bandwidth.num = 0)
        /\ ~kernelGrad.nan =>
             \A a \in 1..N : \A c \in 1..Dims(x) :
                LET e == kernelGrad.v[a][c]
                IN  /\ e.den = 1
                    /\ \A i, j \in 1..N :
                         /\ e.score[i][j] = 0
                         /\ e.repulse[i][j] =
                              (IF i = a THEN x.v[a][c] - x.v[j][c] ELSE 0)

C10_Witness ==
    /\ KernelApplied
    /\ ~kernelGrad.nan
    /\ N = 3
    /\ Dims(x) = 2
    /\ x.v[1] # x.v[2]
    /\ kernelGrad.v[1][1].repulse[1][2] # 0

=============================================================================
